---- MODULE Spec2Model ----
(***************************************************************************)
(* Document Q&A agent: skill registry (skill_manager.py), agent            *)
(* orchestrator (agent_core.py), chunking helper (chunk_document.py) and   *)
(* retrieval helper (semantic_search.py).                                  *)
(*                                                                         *)
(* Python strings are sequences of symbols; a literal of the source that   *)
(* is only ever handled whole (a message prefix, the marker opener         *)
(* "[USE_SKILL:") is one symbol.  An Optional value is <<>> (None) or      *)
(* <<v>>.  Every component has its own specification; the variables of    *)
(* the other components stay at their idle values.                         *)
(***************************************************************************)
EXTENDS Integers, Sequences, FiniteSets, TLC

VARIABLES
    \* ---- SkillManager (skill_manager.py)
    skills_dir,       \* the subdirectories of skills_dir, in iterdir() order
    skills,           \* self.skills: name -> skill record
    dpc,              \* "new" before discover_skills ran, "ready" after
    d_raised,         \* discover_skills raised
    lookup,           \* the last get_skill_instructions call and what it returned
    \* ---- DocumentQAAgent.process_with_skills (agent_core.py)
    pc,               \* "idle", "call" (entered), "chain" (in the skill loop), "done";
                      \* "workflow", "workflow_loop", "workflow_done" in execute_workflow
    user_input,       \* argument user_input
    context,          \* argument context: [none, map]
    agent_response,   \* response['response'] of the first generation call
    skill_requests,   \* the extracted plan; the workflow argument of execute_workflow
    results,          \* the ordered list of {skill, result}
    workflow_context, \* the working copy of context
    ret,              \* the returned text, <<>> until the call returns
    raised,           \* process_with_skills raised
    log,              \* the calls made so far: generate, activate, llm_skill, synthesis
    step,             \* loop index i of execute_workflow
    \* ---- DocumentChunker (chunk_document.py)
    chunk_size, overlap,
    words,            \* word_tokenize(text)
    start,            \* loop variable of chunk_by_tokens
    chunks,           \* chunks built so far / returned
    cpc,              \* "idle", "loop", "done"
    sentences,        \* sent_tokenize(text), each sentence its token sequence
    \* ---- SemanticSearch (semantic_search.py)
    encoder,          \* the loaded model: text -> normalized embedding
    documents,        \* self.documents
    embeddings,       \* self.embeddings: [set, vecs]; set = FALSE is None
    last_call,        \* arguments of the last search call
    search_results,   \* what the last search call returned
    search_raised,    \* the last search call raised
    hybrid_call,      \* arguments of the last hybrid_search call
    hybrid_results,   \* what the last hybrid_search call returned
    hybrid_raised,    \* the last hybrid_search call raised
    \* ---- DocumentQAAgent.interactive_session (agent_core.py)
    spc,                 \* "idle", "session" (in the while loop), "ended"
    current_doc,         \* current_doc: None or the result of process_document
    processed_documents, \* self.processed_documents: doc_id -> record
    inputs,              \* what console.input has returned so far, with its prompt
    session_calls        \* the process_with_skills calls made so far

regVars    == <<skills_dir, skills, dpc, d_raised, lookup>>
agentVars  == <<pc, user_input, context, agent_response, skill_requests, results,
                workflow_context, ret, raised, log, step>>
chunkVars  == <<chunk_size, overlap, words, start, chunks, cpc, sentences>>
searchVars == <<encoder, documents, embeddings, last_call, search_results, search_raised,
                hybrid_call, hybrid_results, hybrid_raised>>
sessionVars == <<spc, current_doc, processed_documents, inputs, session_calls>>
vars       == <<regVars, agentVars, chunkVars, searchVars, sessionVars>>

(***************************************************************************)
(* Python string and list operations                                       *)
(***************************************************************************)
Min(a, b) == IF a < b THEN a ELSE b
Max(a, b) == IF a > b THEN a ELSE b

\* s[:n]
Take(s, n) == SubSeq(s, 1, Min(n, Len(s)))

\* sym in s
Contains(s, sym) == \E i \in 1..Len(s) : s[i] = sym

\* s.startswith(p)
StartsWith(s, p) == Len(p) <= Len(s) /\ SubSeq(s, 1, Len(p)) = p

\* index of the first occurrence of sym in s (sym occurs in s)
FirstIndex(s, sym) == CHOOSE i \in 1..Len(s) : s[i] = sym /\ \A j \in 1..(i-1) : s[j] # sym

\* s.split(sep): the segments between the occurrences of sep
RECURSIVE Split(_, _)
Split(s, sep) ==
    IF ~Contains(s, sep) THEN <<s>>
    ELSE LET i == FirstIndex(s, sep)
         IN  <<SubSeq(s, 1, i - 1)>> \o Split(SubSeq(s, i + 1, Len(s)), sep)

\* s.strip(): leading and trailing whitespace removed
RECURSIVE Strip(_)
Strip(s) ==
    IF s = <<>> THEN s
    ELSE IF s[1] \in {" ", "\n"} THEN Strip(Tail(s))
    ELSE IF s[Len(s)] \in {" ", "\n"} THEN Strip(SubSeq(s, 1, Len(s) - 1))
    ELSE s

\* the concatenation of a sequence of sequences
RECURSIVE Flatten(_)
Flatten(ss) == IF ss = <<>> THEN <<>> ELSE Head(ss) \o Flatten(Tail(ss))

\* all sequences over S of length 0..n
SeqsUpTo(S, n) == UNION {[1..k -> S] : k \in 0..n}

\* dict.get(key, default) on a mapping with string keys
Get(map, key, default) == IF key \in DOMAIN map THEN map[key] ELSE default

\* map[key] = value on a mapping
Put(map, key, value) == [k \in DOMAIN map \cup {key} |-> IF k = key THEN value ELSE map[k]]

EmptyMap == [k \in {} |-> <<>>]

(***************************************************************************)
(* Skill registry: skill_manager.py                                        *)
(***************************************************************************)
\* Bound: the number of entries of the skills directory.
MaxDirs == 3

SkillNames == {<<"extract">>, <<"summarize">>}

\* The text of a SKILL.md file, as written on disk: the delimited header block
\* (when the file has one) followed by the rest of the file.
FileText(file) ==
    (IF file.header
       THEN <<"---", "\n">>
            \o Flatten([i \in 1..Len(file.keys) |->
                          <<file.keys[i], ": ">> \o file.frontmatter[file.keys[i]] \o <<"\n">>])
            \o <<"---", "\n">>
       ELSE <<>>)
    \o file.rest

\* A SKILL.md file: whether it can be read, whether it starts with the delimited
\* header block, the key-value pairs of the block (keys in file order), the rest.
SkillFile(readable, header, keys, name, rest) ==
    [readable    |-> readable,
     header      |-> header,
     keys        |-> keys,
     frontmatter |-> [k \in {keys[i] : i \in 1..Len(keys)} |->
                        IF k = "name" THEN name ELSE <<"about ">> \o name],
     rest        |-> rest]

InstructionText == <<"\n", "Summarize the input", "\n">>

SkillFiles ==
    {SkillFile(FALSE, TRUE, <<"name", "description">>, <<"extract">>, InstructionText),
     SkillFile(TRUE, FALSE, <<>>, <<"extract">>, InstructionText)}
    \cup {SkillFile(TRUE, TRUE, keys, n, InstructionText) :
            keys \in {<<>>, <<"name">>, <<"description">>, <<"name", "description">>},
            n \in SkillNames}

\* What iterdir() can yield: a plain file, a directory without SKILL.md, a
\* directory with one.
DirKinds ==
    {[is_dir |-> FALSE, has_file |-> FALSE, file |-> SkillFile(TRUE, FALSE, <<>>, <<"extract">>, <<>>)],
     [is_dir |-> TRUE,  has_file |-> FALSE, file |-> SkillFile(TRUE, FALSE, <<>>, <<"extract">>, <<>>)]}
    \cup {[is_dir |-> TRUE, has_file |-> TRUE, file |-> f] : f \in SkillFiles}

\* The i-th entry of a listing lives at path i.
Listing(kinds) ==
    [i \in 1..Len(kinds) |->
        [path |-> i, is_dir |-> kinds[i].is_dir, has_file |-> kinds[i].has_file,
         file |-> kinds[i].file]]

\* load_skill, the body of its try block: the parsed record, or an exception.
ParseSkill(entry) ==
    LET file == entry.file IN
    IF ~file.readable THEN [raised |-> TRUE, value |-> <<>>]            \* read_text
    ELSE IF ~file.header THEN [raised |-> TRUE, value |-> <<>>]         \* no frontmatter
    ELSE IF "name" \notin DOMAIN file.frontmatter
            \/ "description" \notin DOMAIN file.frontmatter
         THEN [raised |-> TRUE, value |-> <<>>]                         \* missing fields
    ELSE [raised |-> FALSE,
          value  |-> [metadata     |-> [name        |-> file.frontmatter["name"],
                                        description |-> file.frontmatter["description"],
                                        license     |-> Get(file.frontmatter, "license", <<>>),
                                        path        |-> entry.path],
                      frontmatter  |-> file.frontmatter,
                      body         |-> Strip(file.rest),
                      full_content |-> FileText(file)]]

\* load_skill: every exception of the body is caught and None returned.
load_skill(entry) ==
    LET r == ParseSkill(entry) IN
    IF r.raised THEN [raised |-> FALSE, value |-> <<>>]
    ELSE [raised |-> FALSE, value |-> <<r.value>>]

\* Variant: a failed load is not caught and ends the scan.
DiscoverStep_Propagate(reg, entry) ==
    IF entry.is_dir /\ entry.has_file
      THEN LET skill_data == load_skill(entry) IN
           IF skill_data.value # <<>>
             THEN [raised |-> FALSE,
                   skills |-> Put(reg, skill_data.value[1].metadata.name, skill_data.value[1])]
             ELSE [raised |-> TRUE, skills |-> reg]
      ELSE [raised |-> FALSE, skills |-> reg]

\* Variant: a name already registered is not overwritten.
DiscoverStep_KeepFirst(reg, entry) ==
    IF entry.is_dir /\ entry.has_file
      THEN LET skill_data == load_skill(entry) IN
           IF skill_data.value # <<>> /\ skill_data.value[1].metadata.name \notin DOMAIN reg
             THEN [raised |-> FALSE,
                   skills |-> Put(reg, skill_data.value[1].metadata.name, skill_data.value[1])]
             ELSE [raised |-> FALSE, skills |-> reg]
      ELSE [raised |-> FALSE, skills |-> reg]

\* One iteration of the loop of discover_skills: the try block around load_skill
\* and the registration catches every exception and goes on.
DiscoverStep(reg, entry) ==
    IF entry.is_dir /\ entry.has_file
      THEN LET skill_data == load_skill(entry) IN
           IF skill_data.raised THEN [raised |-> FALSE, skills |-> reg]
           ELSE IF skill_data.value # <<>>
             THEN [raised |-> FALSE,
                   skills |-> Put(reg, skill_data.value[1].metadata.name, skill_data.value[1])]
             ELSE [raised |-> FALSE, skills |-> reg]
      ELSE [raised |-> FALSE, skills |-> reg]

\* discover_skills: the loop over iterdir(); an exception leaving an iteration
\* ends the loop.
RECURSIVE discover_skills(_, _)
discover_skills(listing, reg) ==
    IF listing = <<>> THEN [raised |-> FALSE, skills |-> reg]
    ELSE LET r == DiscoverStep(reg, Head(listing)) IN
         IF r.raised THEN r ELSE discover_skills(Tail(listing), r.skills)

\* get_skill_instructions
get_skill_instructions(reg, skill_name) ==
    IF skill_name \in DOMAIN reg THEN <<reg[skill_name].full_content>> ELSE <<>>

NoLookup == [called |-> FALSE, name |-> <<>>, ret |-> <<>>]

\* The skills directory the agent runs with: two valid skills.
AgentSkillsDir ==
    Listing(<<[is_dir |-> TRUE, has_file |-> TRUE,
               file |-> SkillFile(TRUE, TRUE, <<"name", "description">>, <<"extract">>, InstructionText)],
              [is_dir |-> TRUE, has_file |-> TRUE,
               file |-> SkillFile(TRUE, TRUE, <<"name", "description">>, <<"summarize">>, InstructionText)]>>)

\* SkillManager.__init__: an empty registry, then discover_skills.
SkillManagerInit ==
    /\ dpc = "new"
    /\ LET r == discover_skills(skills_dir, EmptyMap) IN
         /\ skills' = r.skills
         /\ d_raised' = r.raised
    /\ dpc' = "ready"
    /\ UNCHANGED <<skills_dir, lookup>>

\* A call get_skill_instructions(skill_name) on the constructed manager.
GetSkillInstructions ==
    /\ dpc = "ready"
    /\ \E skill_name \in SkillNames \cup {<<"ghost">>} :
         lookup' = [called |-> TRUE, name |-> skill_name,
                    ret |-> get_skill_instructions(skills, skill_name)]
    /\ UNCHANGED <<skills_dir, skills, dpc, d_raised>>

RegIdle ==
    /\ skills_dir = AgentSkillsDir
    /\ skills = discover_skills(AgentSkillsDir, EmptyMap).skills
    /\ dpc = "ready"
    /\ d_raised = FALSE
    /\ lookup = NoLookup

(***************************************************************************)
(* Agent orchestrator: agent_core.py, and activate_skill                   *)
(***************************************************************************)
\* Bound: the number of items (text, line break, marker) of a model response.
MaxItems == 3

\* result[:500] of the fallback text, with strings scaled down to a few symbols.
ExcerptLen == 2

\* context['document_text'][:5000] of the user prompt, scaled down likewise.
DocBudget == 2

OPEN  == "[USE_SKILL:"
CLOSE == "]"

\* The marker the system prompt asks the model to write.
Marker(name) == <<OPEN>> \o name \o <<CLOSE>>

\* Names a plan can hold: the registered ones and one that is not registered.
PlanNames == SkillNames \cup {<<"ghost">>}

ResponseItems == {<<"text">>, <<"\n">>} \cup {Marker(n) : n \in PlanNames}

\* The texts the first generation call can return.
Responses == {Flatten(items) : items \in SeqsUpTo(ResponseItems, MaxItems)}

\* An LLM call returns a text or raises.
Outcomes(texts) ==
    {[ok |-> TRUE, text |-> t] : t \in texts}
    \cup {[ok |-> FALSE, text |-> <<"connection refused">>]}

SkillTexts == {<<"r">>, <<"r", "e", "s">>}

UserInputs == {<<"q1">>}

DocText == <<"d", "o", "c">>

\* The context argument: None, or a mapping.
Contexts ==
    {[none |-> TRUE, map |-> EmptyMap],
     [none |-> FALSE, map |-> [k \in {<<"document_text">>} |-> DocText]]}
    \cup {[none |-> FALSE,
           map  |-> [k \in {<<"user_query">>, <<"document_text">>} |->
                       IF k = <<"user_query">> THEN q ELSE DocText]] :
            q \in {<<"q1">>, <<"q2">>}}

\* if context: None and the empty mapping are false.
Truthy(ctx) == ~ctx.none /\ DOMAIN ctx.map # {}

\* get_available_skills_xml
get_available_skills_xml(reg) ==
    {[name |-> reg[n].metadata.name, description |-> reg[n].metadata.description,
      path |-> reg[n].metadata.path] : n \in DOMAIN reg}

\* The user prompt of process_with_skills.
UserPrompt(input, ctx) ==
    <<"USER REQUEST: ">> \o input
    \o (IF Truthy(ctx) /\ <<"document_text">> \in DOMAIN ctx.map
          THEN <<"DOCUMENT CONTEXT:">> \o Take(ctx.map[<<"document_text">>], DocBudget) \o <<"...">>
          ELSE <<>>)

\* The parse of _execute_skill_chain: per line holding the marker opener, the
\* text between the first opener and the next "]", stripped.
ExtractSkillRequests(response) ==
    LET lines == Split(response, "\n") IN
    Flatten([i \in 1..Len(lines) |->
               IF Contains(lines[i], OPEN)
                 THEN <<Strip(Split(Split(lines[i], OPEN)[2], CLOSE)[1])>>
                 ELSE <<>>])

\* The per-step context of _execute_skill_chain.
SkillContext(wc, res) ==
    [user_query       |-> Get(wc, <<"user_query">>, <<>>),
     document_content |-> Get(wc, <<"document_text">>, <<>>),
     previous_results |-> res,
     workflow_step    |-> Len(res) + 1]

\* Variant: the registry is not consulted before the LLM call.
activate_skill_NoLookup(reg, skill_name, ctx, outcome) ==
    [result |-> IF outcome.ok THEN outcome.text
                ELSE <<"Error executing skill: ">> \o outcome.text,
     calls  |-> <<[op |-> "llm_skill", ok |-> outcome.ok, skill |-> skill_name,
                   instructions |-> <<>>, context |-> ctx]>>]

\* activate_skill: the returned text and the LLM calls made.
activate_skill(reg, skill_name, ctx, outcome) ==
    IF skill_name \notin DOMAIN reg
      THEN [result |-> <<"Skill '">> \o skill_name \o <<"' not found.">>, calls |-> <<>>]
      ELSE [result |-> IF outcome.ok THEN outcome.text
                       ELSE <<"Error executing skill: ">> \o outcome.text,
            calls  |-> <<[op |-> "llm_skill", ok |-> outcome.ok, skill |-> skill_name,
                          instructions |-> reg[skill_name].body, context |-> ctx]>>]

\* Variant: the loop stops at the first skill that is not found.
LoopDone_StopOnNotFound(plan, res) ==
    \/ Len(res) = Len(plan)
    \/ res # <<>> /\ StartsWith(res[Len(res)].result, <<"Skill '">>)

\* The for loop of _execute_skill_chain has run through the plan.
LoopDone(plan, res) == Len(res) = Len(plan)

\* Variant: the results are not truncated.
Fallback_NoTruncate(res) ==
    <<"Skill execution completed. Results:\n\n">>
    \o Flatten([i \in 1..Len(res) |->
                  <<"**">> \o res[i].skill \o <<"**: ">> \o res[i].result \o <<"...\n\n">>])

\* The fallback text of _execute_skill_chain.
Fallback(res) ==
    <<"Skill execution completed. Results:\n\n">>
    \o Flatten([i \in 1..Len(res) |->
                  <<"**">> \o res[i].skill \o <<"**: ">>
                  \o Take(res[i].result, ExcerptLen) \o <<"...\n\n">>])

\* The try block around the synthesis call.
SynthesisReturn(outcome, res) ==
    IF outcome.ok THEN [raised |-> FALSE, value |-> outcome.text]
    ELSE [raised |-> FALSE, value |-> Fallback(res)]

\* The except clause of process_with_skills.
GenerateFailure(outcome) == [raised |-> FALSE, value |-> <<"Error: ">> \o outcome.text]

\* process_with_skills up to the return of the first generation call: the error
\* text, the raw response, or the start of the skill chain.
Generate ==
    /\ pc = "call"
    /\ \E outcome \in Outcomes(Responses) :
         /\ log' = Append(log, [op |-> "generate", ok |-> outcome.ok,
                                system |-> get_available_skills_xml(skills),
                                prompt |-> UserPrompt(user_input, context)])
         /\ IF ~outcome.ok
              THEN /\ ret' = <<GenerateFailure(outcome).value>>
                   /\ raised' = GenerateFailure(outcome).raised
                   /\ pc' = "done"
                   /\ UNCHANGED <<agent_response, skill_requests, workflow_context>>
              ELSE /\ agent_response' = outcome.text
                   /\ raised' = FALSE
                   /\ IF Contains(outcome.text, OPEN)
                           /\ ExtractSkillRequests(outcome.text) # <<>>
                        THEN /\ skill_requests' = ExtractSkillRequests(outcome.text)
                             /\ workflow_context' = IF Truthy(context) THEN context.map ELSE EmptyMap
                             /\ pc' = "chain"
                             /\ ret' = <<>>
                        ELSE /\ ret' = <<outcome.text>>
                             /\ pc' = "done"
                             /\ UNCHANGED <<skill_requests, workflow_context>>
    /\ results' = <<>>
    /\ UNCHANGED <<user_input, context, step>>

\* One iteration of the for loop of _execute_skill_chain.
ActivateStep ==
    /\ pc = "chain"
    /\ ~LoopDone(skill_requests, results)
    /\ LET skill_name    == skill_requests[Len(results) + 1]
           skill_context == SkillContext(workflow_context, results)
       IN  \E outcome \in Outcomes(SkillTexts) :
             LET r == activate_skill(skills, skill_name, skill_context, outcome) IN
               /\ results' = Append(results, [skill |-> skill_name, result |-> r.result])
               /\ workflow_context' = Put(workflow_context, <<"result_">> \o skill_name, r.result)
               /\ log' = log \o <<[op |-> "activate", skill |-> skill_name,
                                   context |-> skill_context]>> \o r.calls
    /\ UNCHANGED <<pc, user_input, context, agent_response, skill_requests, ret, raised,
                   step>>

\* The synthesis call of _execute_skill_chain and its fallback.
Synthesize ==
    /\ pc = "chain"
    /\ LoopDone(skill_requests, results)
    /\ \E outcome \in Outcomes({<<"final answer">>}) :
         /\ log' = Append(log, [op |-> "synthesis", ok |-> outcome.ok, results |-> results,
                                request |-> Get(workflow_context, <<"user_query">>, <<"Unknown">>)])
         /\ ret' = <<SynthesisReturn(outcome, results).value>>
         /\ raised' = SynthesisReturn(outcome, results).raised
    /\ pc' = "done"
    /\ UNCHANGED <<user_input, context, agent_response, skill_requests, results,
                   workflow_context, step>>

\* Bound: the number of skill names of a workflow argument.
MaxWorkflow == 2

\* str(i + 1) in the key of a step
StepLabel(i) == ToString(i + 1)

\* execute_workflow: context = initial_context.copy()
WorkflowStart ==
    /\ pc = "workflow"
    /\ workflow_context' = context.map
    /\ step' = 0
    /\ pc' = "workflow_loop"
    /\ UNCHANGED <<user_input, context, agent_response, skill_requests, results, ret,
                   raised, log>>

\* One iteration of the for loop of execute_workflow.
WorkflowStep ==
    /\ pc = "workflow_loop"
    /\ step < Len(skill_requests)
    /\ LET skill_name == skill_requests[step + 1] IN
       \E outcome \in Outcomes(SkillTexts) :
         LET r == activate_skill(skills, skill_name, workflow_context, outcome) IN
           /\ workflow_context' =
                Put(Put(workflow_context,
                        <<"step_", StepLabel(step), "_">> \o skill_name, r.result),
                    <<"previous_result">>, r.result)
           /\ log' = log \o <<[op |-> "activate", skill |-> skill_name,
                               context |-> workflow_context]>> \o r.calls
    /\ step' = step + 1
    /\ UNCHANGED <<pc, user_input, context, agent_response, skill_requests, results, ret,
                   raised>>

\* return context
WorkflowReturn ==
    /\ pc = "workflow_loop"
    /\ step = Len(skill_requests)
    /\ pc' = "workflow_done"
    /\ UNCHANGED <<user_input, context, agent_response, skill_requests, results,
                   workflow_context, ret, raised, log, step>>

AgentIdle ==
    /\ pc = "idle"
    /\ user_input = <<>>
    /\ context = [none |-> TRUE, map |-> EmptyMap]
    /\ agent_response = <<>>
    /\ skill_requests = <<>>
    /\ results = <<>>
    /\ workflow_context = EmptyMap
    /\ ret = <<>>
    /\ raised = FALSE
    /\ log = <<>>
    /\ step = 0

(***************************************************************************)
(* Chunking helper: chunk_document.py                                      *)
(***************************************************************************)
\* Bounds: tokens of a text, --chunk-size, --overlap, sentences of a text,
\* tokens of a sentence.
MaxTokens == 7
MaxChunkSize == 4
MaxOverlap == 4
MaxSentences == 4
MaxSentenceTokens == 3

\* s[a:b] for a >= 0: a negative b counts from the end, a large b is clipped.
PySlice(s, a, b) ==
    LET stop == IF b < 0 THEN Max(0, Len(s) + b) ELSE Min(b, Len(s)) IN
    IF a >= stop THEN <<>> ELSE SubSeq(s, a + 1, stop)

\* The window of chunk_by_tokens that starts its iteration at start.
TokenChunk(ws, st, size, ov, id) ==
    [text       |-> PySlice(ws, Max(0, st - ov), st + size),
     start_word |-> Max(0, st - ov),
     end_word   |-> st + size,
     chunk_id   |-> id]

\* Variants: the overlap is not subtracted; the next start is one too far.
NextStart_NoOverlap(end, ov) == end

NextStart_OffByOne(end, ov) == end - ov + 1

\* start = end - self.overlap
NextStart(end, ov) == end - ov

\* One iteration of the while loop of chunk_by_tokens.  The guard on the number
\* of chunks only stops the exploration of a loop that does not advance.
TokenStep ==
    /\ cpc = "tokens"
    /\ start < Len(words)
    /\ Len(chunks) <= Len(words)
    /\ chunks' = Append(chunks, TokenChunk(words, start, chunk_size, overlap, Len(chunks)))
    /\ start' = NextStart(start + chunk_size, overlap)
    /\ UNCHANGED <<chunk_size, overlap, words, cpc, sentences>>

\* The while loop of chunk_by_tokens ends and chunks is returned.
TokenReturn ==
    /\ cpc = "tokens"
    /\ ~(start < Len(words))
    /\ cpc' = "done_tokens"
    /\ UNCHANGED <<chunk_size, overlap, words, start, chunks, sentences>>

\* ' '.join(current_chunk): the sentences with a separator between them.
Space == <<0, 0>>

RECURSIVE Join(_)
Join(ss) ==
    IF ss = <<>> THEN <<>>
    ELSE IF Len(ss) = 1 THEN ss[1]
    ELSE ss[1] \o <<Space>> \o Join(Tail(ss))

\* A chunk of chunk_by_sentences closed before sentence i (0-based).
SentenceChunk(cur, i, id) ==
    [text           |-> Join(cur),
     start_sentence |-> i - Len(cur),
     end_sentence   |-> i - 1,
     chunk_id       |-> id]

\* The overlap walk: backward from the end of the closed chunk, sentences are
\* kept while their tokens fit in the overlap budget.
RECURSIVE OverlapWalk(_, _, _, _, _)
OverlapWalk(cur, k, kept, kept_len, ov) ==
    IF k = 0 THEN kept
    ELSE IF kept_len + Len(cur[k]) <= ov
      THEN OverlapWalk(cur, k - 1, <<cur[k]>> \o kept, kept_len + Len(cur[k]), ov)
      ELSE kept

KeepOverlap(cur, ov) == OverlapWalk(cur, Len(cur), <<>>, 0, ov)

\* len(word_tokenize(s)) summed over a list of sentences
TokenCount(ss) == Len(Flatten(ss))

\* Variant: the last partial chunk is not flushed.
FinalFlush_Dropped(chs, cur, n) == chs

\* The flush after the loop of chunk_by_sentences.
FinalFlush(chs, cur, n) ==
    IF cur # <<>> THEN Append(chs, SentenceChunk(cur, n, Len(chs))) ELSE chs

\* The for loop of chunk_by_sentences from sentence i (0-based) on.
RECURSIVE SentenceLoop(_, _, _, _, _, _, _)
SentenceLoop(sents, i, chs, cur, cur_len, size, ov) ==
    IF i >= Len(sents) THEN FinalFlush(chs, cur, Len(sents))
    ELSE LET sentence        == sents[i + 1]
             sentence_tokens == Len(sentence)
         IN  IF cur_len + sentence_tokens > size /\ cur # <<>>
               THEN LET kept == KeepOverlap(cur, ov) IN
                    SentenceLoop(sents, i + 1, Append(chs, SentenceChunk(cur, i, Len(chs))),
                                 Append(kept, sentence), TokenCount(kept) + sentence_tokens,
                                 size, ov)
               ELSE SentenceLoop(sents, i + 1, chs, Append(cur, sentence),
                                 cur_len + sentence_tokens, size, ov)

chunk_by_sentences(sents, size, ov) == SentenceLoop(sents, 0, <<>>, <<>>, 0, size, ov)

\* chunk_by_sentences, called from main.
ChunkBySentences ==
    /\ cpc = "sentences"
    /\ chunks' = chunk_by_sentences(sentences, chunk_size, overlap)
    /\ cpc' = "done_sentences"
    /\ UNCHANGED <<chunk_size, overlap, words, start, sentences>>

\* The token sequence of an n-token text: token i is i.
TokenText(n) == [i \in 1..n |-> i]

\* The sentences of a text, given their token counts: token j of sentence i is <<i, j>>.
SentenceText(lens) == [i \in 1..Len(lens) |-> [j \in 1..lens[i] |-> <<i, j>>]]

ChunkIdle ==
    /\ chunk_size = 1
    /\ overlap = 0
    /\ words = <<>>
    /\ start = 0
    /\ chunks = <<>>
    /\ cpc = "idle"
    /\ sentences = <<>>

(***************************************************************************)
(* Retrieval helper: semantic_search.py                                    *)
(***************************************************************************)
\* Bounds: documents indexed at once, the largest top_k.
MaxDocs == 3
MaxTopK == 3

\* Document and query texts: whitespace-separated terms.
Texts == {<<"cat">>, <<"dog">>, <<"cat", " ", "dog">>, <<"Bird">>}

\* self.model.encode: the opaque embedding model, a fixed table of small
\* integer vectors (similarities are on an integer scale).
Encode(text) ==
    CASE text = <<"cat">> -> <<1, 0>>
      [] text = <<"dog">> -> <<0, 1>>
      [] text = <<"cat", " ", "dog">> -> <<1, 1>>
      [] OTHER -> <<-1, 0>>

\* np.dot of two vectors
Dot(u, v) == u[1] * v[1] + u[2] * v[2]

\* np.dot(self.embeddings, query_embedding)
Similarities(vecs, q) == [i \in 1..Len(vecs) |-> Dot(vecs[i], q)]

\* np.argsort: an ascending order of the indices; the order among equal
\* scores is not fixed by the default sort kind.
ArgSorts(sims) ==
    {p \in [1..Len(sims) -> 1..Len(sims)] :
        /\ \A i, j \in 1..Len(sims) : i # j => p[i] # p[j]
        /\ \A i \in 1..(Len(sims) - 1) : sims[p[i]] <= sims[p[i + 1]]}

\* [::-1]
Reverse(s) == [i \in 1..Len(s) |-> s[Len(s) + 1 - i]]

\* Variant: the ascending order is not reversed.
TopIndices_Ascending(order, top_k) == PySlice(order, 0, top_k)

\* The indices search looks at: np.argsort(similarities)[::-1][:top_k]
TopIndices(order, top_k) == PySlice(Reverse(order), 0, top_k)

\* The loop of search over top_indices: the results at or above the threshold.
RECURSIVE SearchResults(_, _, _, _)
SearchResults(top, sims, docs, threshold) ==
    IF top = <<>> THEN <<>>
    ELSE (IF sims[Head(top)] >= threshold
            THEN <<[index |-> Head(top) - 1, text |-> docs[Head(top)],
                    score |-> sims[Head(top)]]>>
            ELSE <<>>)
         \o SearchResults(Tail(top), sims, docs, threshold)

\* if self.embeddings is None: raise
NotIndexed(emb) == ~emb.set

NoCall == [called |-> FALSE, indexed |-> FALSE, query |-> <<>>, top_k |-> 0, threshold |-> 0]

NoHybridCall == [called |-> FALSE, query |-> <<>>, documents |-> <<>>, top_k |-> 0, alpha |-> 0]

\* index_documents
IndexDocuments ==
    /\ ~last_call.called /\ ~hybrid_call.called
    /\ \E docs \in SeqsUpTo(Texts, MaxDocs) \ {<<>>} :
         /\ documents' = docs
         /\ embeddings' = [set |-> TRUE, vecs |-> [i \in 1..Len(docs) |-> Encode(docs[i])]]
    /\ UNCHANGED <<encoder, last_call, search_results, search_raised,
                   hybrid_call, hybrid_results, hybrid_raised>>

\* search.  last_call, search_results and search_raised hold what the caller
\* sees of the call until SearchReturned.
Search ==
    /\ ~last_call.called /\ ~hybrid_call.called
    /\ \E query \in Texts :
         IF NotIndexed(embeddings)
           THEN \E top_k \in (-1)..MaxTopK, threshold \in (-1)..2 :
                  /\ last_call' = [called |-> TRUE, indexed |-> documents # <<>>, query |-> query,
                                   top_k |-> top_k, threshold |-> threshold]
                  /\ search_raised' = TRUE
                  /\ search_results' = <<>>
           ELSE LET sims == Similarities(embeddings.vecs, Encode(query)) IN
                \E order \in ArgSorts(sims) :
                  \E top_k \in (-1)..MaxTopK, threshold \in (-1)..2 :
                    /\ last_call' = [called |-> TRUE, indexed |-> documents # <<>>, query |-> query,
                                     top_k |-> top_k, threshold |-> threshold]
                    /\ search_raised' = FALSE
                    /\ search_results' =
                         SearchResults(TopIndices(order, top_k), sims, documents, threshold)
    /\ UNCHANGED <<encoder, documents, embeddings, hybrid_call, hybrid_results, hybrid_raised>>

\* The caller is done with the outcome of a search call; the object is unchanged.
SearchReturned ==
    /\ last_call.called
    /\ last_call' = NoCall
    /\ search_results' = <<>>
    /\ search_raised' = FALSE
    /\ UNCHANGED <<encoder, documents, embeddings, hybrid_call, hybrid_results, hybrid_raised>>

\* search's default threshold=0.3 on the integer scale of Encode: the
\* similarities at or above 0.3 are those at or above 1.
DefaultThreshold == 1

\* Resolution of alpha: alpha is a / AlphaDen for a in 0..AlphaDen.
AlphaDen == 2

\* str.lower on one term
Lower(term) ==
    CASE term = "Bird" -> "bird"
      [] term \in {"EXIT", "Exit"} -> "exit"
      [] term = "NEW" -> "new"
      [] OTHER -> term

\* set(text.lower().split())
Terms(text) == {Lower(text[i]) : i \in 1..Len(text)} \ {" "}

\* keyword_scores[i] = len(common_terms) / len(query_terms), or 0 for a query
\* without terms; the numerator over the common denominator len(query_terms).
KeywordScore(query, doc) ==
    IF Terms(query) # {} THEN Cardinality(Terms(query) \cap Terms(doc)) ELSE 0

\* semantic_scores = {r['index']: r['score'] for r in semantic_results}
SemanticScores(semantic_results) ==
    [i \in {semantic_results[r].index : r \in 1..Len(semantic_results)} |->
        semantic_results[CHOOSE r \in 1..Len(semantic_results) :
                             semantic_results[r].index = i].score]

\* max(scores.values()) if scores else 1
MaxOr1(scores) ==
    IF DOMAIN scores = {} THEN 1
    ELSE CHOOSE m \in {scores[i] : i \in DOMAIN scores} :
             \A i \in DOMAIN scores : scores[i] <= m

\* scores.get(i, 0)
GetOr0(scores, i) == IF i \in DOMAIN scores THEN scores[i] ELSE 0

\* combined_scores[i] = alpha * semantic + (1 - alpha) * keyword with both
\* parts divided by their maxima (0 when the maximum is not positive), as
\* the numerator over the common positive denominator CombinedDen.
Combined(a, sem, kw, i) ==
    LET ms == MaxOr1(sem)
        mk == MaxOr1(kw)
    IN  (IF ms > 0 THEN a * GetOr0(sem, i) * (IF mk > 0 THEN mk ELSE 1) ELSE 0)
        + (IF mk > 0 THEN (AlphaDen - a) * GetOr0(kw, i) * (IF ms > 0 THEN ms ELSE 1) ELSE 0)

CombinedDen(sem, kw) ==
    AlphaDen * (IF MaxOr1(sem) > 0 THEN MaxOr1(sem) ELSE 1)
             * (IF MaxOr1(kw) > 0 THEN MaxOr1(kw) ELSE 1)

\* sorted(combined_scores.items(), key=lambda x: x[1], reverse=True): a
\* stable sort, equal scores stay in index order.  Indices 0..n-1.
SortedDescending(scores, n) ==
    LET Ahead(i) == {j \in 0..(n - 1) : \/ scores[j] > scores[i]
                                        \/ scores[j] = scores[i] /\ j < i}
    IN  [r \in 1..n |-> CHOOSE i \in 0..(n - 1) : Cardinality(Ahead(i)) = r - 1]

\* Variant: entries with a zero score are returned as well.
RECURSIVE HybridResults_KeepZero(_, _, _, _, _, _)
HybridResults_KeepZero(top, scores, den, sem, kw, docs) ==
    IF top = <<>> THEN <<>>
    ELSE <<[index |-> Head(top), text |-> docs[Head(top) + 1],
            score |-> [num |-> scores[Head(top)], den |-> den],
            semantic_score |-> GetOr0(sem, Head(top)),
            keyword_score |-> GetOr0(kw, Head(top))]>>
         \o HybridResults_KeepZero(Tail(top), scores, den, sem, kw, docs)

\* The loop of hybrid_search over top_indices: the entries with score > 0.
RECURSIVE HybridResults(_, _, _, _, _, _)
HybridResults(top, scores, den, sem, kw, docs) ==
    IF top = <<>> THEN <<>>
    ELSE (IF scores[Head(top)] > 0
            THEN <<[index |-> Head(top), text |-> docs[Head(top) + 1],
                    score |-> [num |-> scores[Head(top)], den |-> den],
                    semantic_score |-> GetOr0(sem, Head(top)),
                    keyword_score |-> GetOr0(kw, Head(top))]>>
            ELSE <<>>)
         \o HybridResults(Tail(top), scores, den, sem, kw, docs)

\* hybrid_search after its call of search returned semantic_results.
hybrid_search(semantic_results, query, docs, top_k, a) ==
    LET sem == SemanticScores(semantic_results)
        kw == [i \in 0..(Len(docs) - 1) |-> KeywordScore(query, docs[i + 1])]
        scores == [i \in 0..(Len(docs) - 1) |-> Combined(a, sem, kw, i)]
    IN  HybridResults(PySlice(SortedDescending(scores, Len(docs)), 0, top_k),
                      scores, CombinedDen(sem, kw), sem, kw, docs)

\* Queries of hybrid_search: one term, two terms, a lowercase spelling of a
\* capitalised document term, and the empty query.
HybridQueries == {<<"cat">>, <<"cat", " ", "dog">>, <<"bird">>, <<>>}

\* Document lists handed to hybrid_search: the indexed list, and a list of
\* its own.
HybridDocuments == {documents, <<<<"Bird">>, <<"cat">>, <<"cat", " ", "dog">>>>}

\* hybrid_search.  hybrid_call, hybrid_results and hybrid_raised hold what the
\* caller sees of the call until HybridReturned.
HybridSearch ==
    /\ ~last_call.called /\ ~hybrid_call.called
    /\ \E query \in HybridQueries, docs \in HybridDocuments :
         IF NotIndexed(embeddings)
           THEN \E top_k \in (-1)..MaxTopK, a \in 0..AlphaDen :
                  /\ hybrid_call' = [called |-> TRUE, query |-> query, documents |-> docs,
                                     top_k |-> top_k, alpha |-> a]
                  /\ hybrid_raised' = TRUE
                  /\ hybrid_results' = <<>>
           ELSE LET sims == Similarities(embeddings.vecs, Encode(query)) IN
                \E semantic_results \in
                      {SearchResults(TopIndices(order, Len(docs)), sims, documents,
                                     DefaultThreshold) : order \in ArgSorts(sims)} :
                  \E top_k \in (-1)..MaxTopK, a \in 0..AlphaDen :
                    /\ hybrid_call' = [called |-> TRUE, query |-> query, documents |-> docs,
                                       top_k |-> top_k, alpha |-> a]
                    /\ hybrid_raised' = FALSE
                    /\ hybrid_results' = hybrid_search(semantic_results, query, docs, top_k, a)
    /\ UNCHANGED <<encoder, documents, embeddings, last_call, search_results, search_raised>>

\* The caller is done with the outcome of a hybrid_search call.
HybridReturned ==
    /\ hybrid_call.called
    /\ hybrid_call' = NoHybridCall
    /\ hybrid_results' = <<>>
    /\ hybrid_raised' = FALSE
    /\ UNCHANGED <<encoder, documents, embeddings, last_call, search_results, search_raised>>

SearchIdle ==
    /\ encoder = "all-MiniLM-L6-v2"
    /\ documents = <<>>
    /\ embeddings = [set |-> FALSE, vecs |-> <<>>]
    /\ last_call = NoCall
    /\ search_results = <<>>
    /\ search_raised = FALSE
    /\ hybrid_call = NoHybridCall
    /\ hybrid_results = <<>>
    /\ hybrid_raised = FALSE

(***************************************************************************)
(* Interactive session: agent_core.py                                      *)
(***************************************************************************)
\* Bound: the number of inputs a session reads.
MaxInputs == 5

\* content[:500] of the preview, with strings scaled down to a few symbols.
PreviewLen == 2

\* Document paths: two files of the same stem in different directories, and a
\* path at which nothing can be read.
PathA == <<"a/", "report", ".txt">>
PathB == <<"b/", "report", ".txt">>
PathMissing == <<"missing", ".txt">>

\* The two attempts of process_document to read the file: the content, or
\* nothing when both fail.
ReadFile(path) ==
    CASE path = PathA -> <<<<"al", "p", "ha">>>>
      [] path = PathB -> <<<<"beta">>>>
      [] OTHER -> <<>>

\* Path(file_path).stem
Stem(path) == SelectSeq(path, LAMBDA x : x \notin {"a/", "b/", ".txt"})

\* str.lower on a text
LowerText(text) == [i \in 1..Len(text) |-> Lower(text[i])]

\* process_document: the returned mapping and self.processed_documents after it.
process_document(file_path, docs) ==
    IF ReadFile(file_path) = <<>>
      THEN [result |-> [error |-> <<"Cannot read document">>], docs |-> docs]
      ELSE LET content == ReadFile(file_path)[1]
               doc_id  == <<"doc_">> \o Stem(file_path)
           IN  [result |-> [document_id     |-> doc_id,
                            content_preview |-> IF Len(content) > PreviewLen
                                                  THEN Take(content, PreviewLen) \o <<"...">>
                                                  ELSE content],
                docs   |-> Put(docs, doc_id, [id |-> doc_id, path |-> file_path,
                                              content |-> content, length |-> Len(content)])]

\* Variant: an empty question is asked like any other.
QuestionKind_EmptyAsks(question) ==
    IF LowerText(question) \in {<<"quit">>, <<"exit">>} THEN "quit"
    ELSE IF LowerText(question) = <<"new">> THEN "new"
    ELSE "ask"

\* The branches of interactive_session on a question.
QuestionKind(question) ==
    IF LowerText(question) \in {<<"quit">>, <<"exit">>} THEN "quit"
    ELSE IF LowerText(question) = <<"new">> THEN "new"
    ELSE IF question = <<>> THEN "empty"
    ELSE "ask"

\* What the user types at the two prompts.
DocInputs == {<<"quit">>, <<" ", "EXIT">>, PathA, <<" ">> \o PathB \o <<" ">>, PathMissing, <<>>}

QuestionInputs == {<<"quit">>, <<"Exit", " ">>, <<"NEW">>, <<" ">>, <<"why?">>, <<" ", "what?">>}

\* An iteration of the session loop without an active document: the path prompt.
DocPrompt ==
    /\ spc = "session"
    /\ current_doc = <<>>
    /\ Len(inputs) < MaxInputs
    /\ \E text \in DocInputs :
         LET doc_path == Strip(text) IN
           /\ inputs' = Append(inputs, [prompt |-> "doc", text |-> text])
           /\ IF LowerText(doc_path) \in {<<"quit">>, <<"exit">>}
                THEN /\ spc' = "ended"
                     /\ UNCHANGED <<current_doc, processed_documents>>
                ELSE LET r == process_document(doc_path, processed_documents) IN
                     /\ processed_documents' = r.docs
                     /\ current_doc' = IF "error" \in DOMAIN r.result THEN <<>>
                                       ELSE <<r.result>>
                     /\ UNCHANGED spc
    /\ UNCHANGED session_calls

\* An iteration of the session loop with an active document: the question prompt.
QuestionPrompt ==
    /\ spc = "session"
    /\ current_doc # <<>>
    /\ Len(inputs) < MaxInputs
    /\ \E text \in QuestionInputs :
         LET question == Strip(text)
             kind     == QuestionKind(question)
         IN  /\ inputs' = Append(inputs, [prompt |-> "question", text |-> text])
             /\ spc' = IF kind = "quit" THEN "ended" ELSE spc
             /\ current_doc' = IF kind = "new" THEN <<>> ELSE current_doc
             /\ session_calls' =
                  IF kind = "ask"
                    THEN Append(session_calls,
                           [user_input |-> question,
                            context    |->
                              [user_query    |-> question,
                               document_text |->
                                 processed_documents[current_doc[1].document_id].content,
                               document_id   |-> current_doc[1].document_id],
                            at         |-> Len(inputs) + 1])
                    ELSE session_calls
    /\ UNCHANGED processed_documents

SessionIdle ==
    /\ spc = "idle"
    /\ current_doc = <<>>
    /\ processed_documents = EmptyMap
    /\ inputs = <<>>
    /\ session_calls = <<>>

(***************************************************************************)
(* Specifications                                                          *)
(***************************************************************************)
\* SkillManager(skills_dir): discovery over every bounded skills directory,
\* then lookups by name.
InitRegistry ==
    /\ skills_dir \in {Listing(kinds) : kinds \in SeqsUpTo(DirKinds, MaxDirs)}
    /\ skills = EmptyMap
    /\ dpc = "new"
    /\ d_raised = FALSE
    /\ lookup = NoLookup
    /\ AgentIdle /\ ChunkIdle /\ SearchIdle /\ SessionIdle

NextRegistry ==
    \/ SkillManagerInit /\ UNCHANGED <<agentVars, chunkVars, searchVars, sessionVars>>
    \/ GetSkillInstructions /\ UNCHANGED <<agentVars, chunkVars, searchVars, sessionVars>>

SpecRegistry == InitRegistry /\ [][NextRegistry]_vars

\* One call process_with_skills(user_input, context) on an agent with two
\* skills, or one call execute_workflow(workflow, initial_context) on its
\* skill manager.
InitAgent ==
    /\ RegIdle /\ ChunkIdle /\ SearchIdle /\ SessionIdle
    /\ \/ /\ pc = "call"
          /\ user_input \in UserInputs
          /\ context \in Contexts
          /\ skill_requests = <<>>
       \/ /\ pc = "workflow"
          /\ user_input = <<>>
          /\ context \in {c \in Contexts : ~c.none}
          /\ skill_requests \in SeqsUpTo(PlanNames, MaxWorkflow)
    /\ step = 0
    /\ agent_response = <<>>
    /\ results = <<>>
    /\ workflow_context = EmptyMap
    /\ ret = <<>>
    /\ raised = FALSE
    /\ log = <<>>

NextAgent ==
    \/ Generate /\ UNCHANGED <<regVars, chunkVars, searchVars, sessionVars>>
    \/ ActivateStep /\ UNCHANGED <<regVars, chunkVars, searchVars, sessionVars>>
    \/ Synthesize /\ UNCHANGED <<regVars, chunkVars, searchVars, sessionVars>>
    \/ WorkflowStart /\ UNCHANGED <<regVars, chunkVars, searchVars, sessionVars>>
    \/ WorkflowStep /\ UNCHANGED <<regVars, chunkVars, searchVars, sessionVars>>
    \/ WorkflowReturn /\ UNCHANGED <<regVars, chunkVars, searchVars, sessionVars>>

SpecAgent == InitAgent /\ [][NextAgent]_vars

\* main of chunk_document.py with --method tokens or sentences.
InitChunk ==
    /\ RegIdle /\ AgentIdle /\ SearchIdle /\ SessionIdle
    /\ chunk_size \in 1..MaxChunkSize
    /\ overlap \in 0..MaxOverlap
    /\ start = 0
    /\ chunks = <<>>
    /\ \/ /\ cpc = "tokens"
          /\ words \in {TokenText(n) : n \in 0..MaxTokens}
          /\ sentences = <<>>
       \/ /\ cpc = "sentences"
          /\ words = <<>>
          /\ sentences \in {SentenceText(lens) :
                              lens \in SeqsUpTo(1..MaxSentenceTokens, MaxSentences)}

NextChunk ==
    \/ TokenStep /\ UNCHANGED <<regVars, agentVars, searchVars, sessionVars>>
    \/ TokenReturn /\ UNCHANGED <<regVars, agentVars, searchVars, sessionVars>>
    \/ ChunkBySentences /\ UNCHANGED <<regVars, agentVars, searchVars, sessionVars>>

SpecChunk == InitChunk /\ [][NextChunk]_vars

\* A SemanticSearch object: index_documents, search and hybrid_search in any order.
InitSearch == RegIdle /\ AgentIdle /\ ChunkIdle /\ SearchIdle /\ SessionIdle

NextSearch ==
    \/ IndexDocuments /\ UNCHANGED <<regVars, agentVars, chunkVars, sessionVars>>
    \/ Search /\ UNCHANGED <<regVars, agentVars, chunkVars, sessionVars>>
    \/ SearchReturned /\ UNCHANGED <<regVars, agentVars, chunkVars, sessionVars>>
    \/ HybridSearch /\ UNCHANGED <<regVars, agentVars, chunkVars, sessionVars>>
    \/ HybridReturned /\ UNCHANGED <<regVars, agentVars, chunkVars, sessionVars>>

SpecSearch == InitSearch /\ [][NextSearch]_vars

\* interactive_session on a freshly constructed agent.
InitSession ==
    /\ RegIdle /\ AgentIdle /\ ChunkIdle /\ SearchIdle
    /\ spc = "session"
    /\ current_doc = <<>>
    /\ processed_documents = EmptyMap
    /\ inputs = <<>>
    /\ session_calls = <<>>

NextSession ==
    \/ DocPrompt /\ UNCHANGED <<regVars, agentVars, chunkVars, searchVars>>
    \/ QuestionPrompt /\ UNCHANGED <<regVars, agentVars, chunkVars, searchVars>>

SpecSession == InitSession /\ [][NextSession]_vars

(***************************************************************************)
(* Claims                                                                  *)
(***************************************************************************)
\* ceil(a / b) for b > 0
CeilDiv(a, b) == -((-a) \div b)

\* The names enclosed in the markers of a text, in order of appearance.
RECURSIVE MarkerNames(_)
MarkerNames(text) ==
    IF ~Contains(text, OPEN) THEN <<>>
    ELSE LET rest == SubSeq(text, FirstIndex(text, OPEN) + 1, Len(text)) IN
         IF ~Contains(rest, CLOSE) THEN <<>>
         ELSE <<SubSeq(rest, 1, FirstIndex(rest, CLOSE) - 1)>>
              \o MarkerNames(SubSeq(rest, FirstIndex(rest, CLOSE) + 1, Len(rest)))

\* C1: the plan extracted from a response that holds markers is the sequence of
\* the names enclosed in its markers, one per marker, in order of appearance.
C1_PlanIsEveryMarker ==
    (pc \in {"chain", "done"} /\ Contains(agent_response, OPEN))
        => skill_requests = MarkerNames(agent_response)

\* The activate_skill and synthesis calls made so far, in order.
ChainCalls == SelectSeq(log, LAMBDA e : e.op \in {"activate", "synthesis"})

\* C2: a plan of n names leads to exactly n activate_skill calls, one per name in
\* plan order, and then exactly one synthesis call, whatever the activations return.
C2_ActivationsThenOneSynthesis ==
    (pc \in {"chain", "done"} /\ skill_requests # <<>>) =>
        LET n == Len(skill_requests) IN
        /\ Len(ChainCalls) <= n + 1
        /\ \A i \in 1..Len(ChainCalls) :
             IF i <= n
               THEN ChainCalls[i].op = "activate" /\ ChainCalls[i].skill = skill_requests[i]
               ELSE ChainCalls[i].op = "synthesis"
        /\ pc = "done" => Len(ChainCalls) = n + 1

\* A plan whose first skill is not found and whose second fails in the LLM has
\* run to its synthesis call.
C2_Witness ==
    /\ pc = "done"
    /\ Len(results) >= 2
    /\ StartsWith(results[1].result, <<"Skill '">>)
    /\ StartsWith(results[2].result, <<"Error executing skill: ">>)
    /\ log[Len(log)].op = "synthesis"

\* C3: process_with_skills never raises and returns text whenever it ends: the
\* text starts with "Error: " and no skill was activated when the first generation
\* call raised; it is the fallback listing of every executed skill, in execution
\* order, with at most the first ExcerptLen symbols of its result, when the
\* synthesis call raised.
C3_AlwaysReturnsText ==
    /\ ~raised
    /\ pc \in {"call", "chain"} => ENABLED NextAgent
    /\ pc = "done" =>
         /\ Len(ret) = 1
         /\ ~log[1].ok =>
              /\ StartsWith(ret[1], <<"Error: ">>)
              /\ \A k \in 1..Len(log) : log[k].op \notin {"activate", "llm_skill"}
         /\ (log[Len(log)].op = "synthesis" /\ ~log[Len(log)].ok) =>
              /\ Len(ChainCalls) = Len(results) + 1
              /\ ret[1] = <<"Skill execution completed. Results:\n\n">>
                          \o Flatten([i \in 1..Len(results) |->
                                <<"**">> \o ChainCalls[i].skill \o <<"**: ">>
                                \o SubSeq(results[i].result, 1,
                                          Min(ExcerptLen, Len(results[i].result)))
                                \o <<"...\n\n">>])

\* The synthesis call raised after two skills ran, one with a result longer than
\* the excerpt.
C3_Witness ==
    /\ pc = "done"
    /\ log[Len(log)].op = "synthesis" /\ ~log[Len(log)].ok
    /\ Len(results) >= 2
    /\ \E i \in 1..Len(results) : Len(results[i].result) > ExcerptLen

\* The position in log of the i-th activate_skill call.
ActivateAt(i) ==
    CHOOSE k \in 1..Len(log) :
        /\ log[k].op = "activate"
        /\ Cardinality({j \in 1..k : log[j].op = "activate"}) = i

\* The LLM calls made by the i-th activate_skill call.
LlmCallsOf(i) ==
    {j \in (ActivateAt(i) + 1)..Len(log) :
        \A m \in (ActivateAt(i) + 1)..j : log[m].op = "llm_skill"}

\* C4: activate_skill with an unregistered name returns "Skill '<name>' not found."
\* and makes no LLM call; with a registered name it makes exactly one LLM call
\* and returns an "Error executing skill: " text when that call raises; it never
\* raises and never changes the registry.
C4_ActivateSkillContract ==
    /\ ~raised
    /\ skills = discover_skills(AgentSkillsDir, EmptyMap).skills
    /\ \A i \in 1..Len(results) :
         IF results[i].skill \notin DOMAIN skills
           THEN /\ results[i].result = <<"Skill '">> \o results[i].skill \o <<"' not found.">>
                /\ LlmCallsOf(i) = {}
           ELSE /\ Cardinality(LlmCallsOf(i)) = 1
                /\ \A j \in LlmCallsOf(i) :
                     /\ log[j].skill = results[i].skill
                     /\ ~log[j].ok => StartsWith(results[i].result, <<"Error executing skill: ">>)

\* Both cases happened in one run: an unregistered name, and a registered one
\* whose LLM call raised.
C4_Witness ==
    /\ \E i \in 1..Len(results) : results[i].skill \notin DOMAIN skills
    /\ \E i \in 1..Len(results) :
         /\ results[i].skill \in DOMAIN skills
         /\ \E j \in LlmCallsOf(i) : ~log[j].ok

\* A subdirectory with a readable SKILL.md that has the header block and both
\* required keys.
ValidSkillDir(entry) ==
    /\ entry.is_dir /\ entry.has_file
    /\ entry.file.readable /\ entry.file.header
    /\ \E i \in 1..Len(entry.file.keys) : entry.file.keys[i] = "name"
    /\ \E i \in 1..Len(entry.file.keys) : entry.file.keys[i] = "description"

DeclaredName(entry) == entry.file.frontmatter["name"]

\* C5: discover_skills never raises; a subdirectory whose SKILL.md lacks the
\* header block or a required key adds no entry, and every valid subdirectory is
\* loaded wherever the invalid ones are in the iteration order.
C5_DiscoverySkipsInvalid ==
    dpc = "ready" =>
        /\ ~d_raised
        /\ \A i \in 1..Len(skills_dir) :
             IF ValidSkillDir(skills_dir[i])
               THEN /\ DeclaredName(skills_dir[i]) \in DOMAIN skills
                    /\ (\A j \in (i + 1)..Len(skills_dir) :
                          ValidSkillDir(skills_dir[j])
                            => DeclaredName(skills_dir[j]) # DeclaredName(skills_dir[i]))
                         => skills[DeclaredName(skills_dir[i])].metadata.path = skills_dir[i].path
               ELSE \A n \in DOMAIN skills : skills[n].metadata.path # skills_dir[i].path

\* A directory without the header block and one without a required key come
\* before a valid directory, which is loaded.
C5_Witness ==
    /\ dpc = "ready"
    /\ Len(skills_dir) = 3
    /\ skills_dir[1].is_dir /\ skills_dir[1].has_file /\ skills_dir[1].file.readable
    /\ ~skills_dir[1].file.header
    /\ skills_dir[2].is_dir /\ skills_dir[2].has_file /\ skills_dir[2].file.header
    /\ skills_dir[2].file.keys = <<"name">>
    /\ ValidSkillDir(skills_dir[3])
    /\ DOMAIN skills = {DeclaredName(skills_dir[3])}

\* The valid directories that declare name n.
DirsDeclaring(n) ==
    {i \in 1..Len(skills_dir) : ValidSkillDir(skills_dir[i]) /\ DeclaredName(skills_dir[i]) = n}

\* C6: after discovery the registry holds one record per declared name, keyed by
\* the name in its metadata, and of the valid directories that declare a name
\* the one discovered last is retained.
C6_LaterDuplicateRetained ==
    dpc = "ready" =>
        /\ DOMAIN skills = {DeclaredName(skills_dir[i]) :
                              i \in {k \in 1..Len(skills_dir) : ValidSkillDir(skills_dir[k])}}
        /\ \A n \in DOMAIN skills :
             /\ skills[n].metadata.name = n
             /\ \E i \in DirsDeclaring(n) :
                  /\ \A j \in DirsDeclaring(n) : j <= i
                  /\ skills[n].metadata.path = skills_dir[i].path

\* Two valid directories declare the same name; the later one is retained.
C6_Witness ==
    /\ dpc = "ready"
    /\ \E n \in DOMAIN skills :
         /\ Cardinality(DirsDeclaring(n)) >= 2
         /\ skills[n].metadata.path = 3

\* C7 as stated: for C > O, chunk_by_tokens returns ceil((N-O)/(C-O)) windows.
C7_WindowCountAsStated ==
    (cpc = "done_tokens" /\ chunk_size > overlap)
        => Len(chunks) = CeilDiv(Len(words) - overlap, chunk_size - overlap)

\* C7, amended: for C > O, chunk_by_tokens returns ceil(N/(C-O)) windows.
C7_WindowCount ==
    (cpc = "done_tokens" /\ chunk_size > overlap)
        => Len(chunks) = CeilDiv(Len(words), chunk_size - overlap)

\* A text chunked with a non-zero overlap into several windows, more than the
\* stated count.
C7_Witness ==
    /\ cpc = "done_tokens"
    /\ chunk_size > overlap /\ overlap > 0
    /\ Len(words) > chunk_size
    /\ Len(chunks) >= 3
    /\ Len(chunks) > CeilDiv(Len(words) - overlap, chunk_size - overlap)

\* C8: for C > O >= 0, every token index in [0,N) lies in the range of a window
\* that holds that token, and chunk ids are 0,1,2,... in output order.
C8_WindowsCoverEveryToken ==
    (cpc = "done_tokens" /\ chunk_size > overlap) =>
        /\ \A i \in 0..(Len(words) - 1) :
             \E k \in 1..Len(chunks) :
               /\ chunks[k].start_word <= i /\ i < chunks[k].end_word
               /\ i - chunks[k].start_word + 1 \in 1..Len(chunks[k].text)
               /\ chunks[k].text[i - chunks[k].start_word + 1] = words[i + 1]
        /\ \A k \in 1..Len(chunks) : chunks[k].chunk_id = k - 1

\* A text of several windows, with and without overlap.
C8_Witness ==
    /\ cpc = "done_tokens"
    /\ chunk_size > overlap
    /\ Len(words) = MaxTokens
    /\ Len(chunks) >= 3

\* C9: every chunk of chunk_by_sentences is the run of whole sentences
\* sentences[start_sentence..end_sentence], and every sentence index lies in the
\* range of a chunk.
C9_WholeSentencesCovered ==
    cpc = "done_sentences" =>
        /\ \A k \in 1..Len(chunks) :
             /\ 0 <= chunks[k].start_sentence
             /\ chunks[k].start_sentence <= chunks[k].end_sentence
             /\ chunks[k].end_sentence < Len(sentences)
             /\ chunks[k].text =
                  Join(SubSeq(sentences, chunks[k].start_sentence + 1,
                              chunks[k].end_sentence + 1))
        /\ \A i \in 0..(Len(sentences) - 1) :
             \E k \in 1..Len(chunks) :
               chunks[k].start_sentence <= i /\ i <= chunks[k].end_sentence

\* Several chunks, one of more than one sentence, and a sentence carried over
\* as overlap.
C9_Witness ==
    /\ cpc = "done_sentences"
    /\ Len(chunks) >= 3
    /\ \E k \in 1..Len(chunks) : chunks[k].end_sentence > chunks[k].start_sentence
    /\ \E k \in 2..Len(chunks) : chunks[k].start_sentence <= chunks[k - 1].end_sentence

\* The similarity of indexed document i (1-based) to the query of the last call.
ScoreOf(i) == Dot(Encode(documents[i]), Encode(last_call.query))

\* C10: search raises when no index_documents call came before it; after
\* indexing, for top_k >= 0, it returns at most top_k results, each an indexed
\* document with its score, every score >= threshold, in descending order of
\* score, and no omitted document with a score >= threshold scores higher than
\* a returned one.
C10_SearchContract ==
    last_call.called =>
        /\ search_raised <=> ~last_call.indexed
        /\ (~search_raised /\ last_call.top_k >= 0) =>
             /\ Len(search_results) <= last_call.top_k
             /\ \A r \in 1..Len(search_results) :
                  /\ search_results[r].index + 1 \in 1..Len(documents)
                  /\ search_results[r].text = documents[search_results[r].index + 1]
                  /\ search_results[r].score = ScoreOf(search_results[r].index + 1)
                  /\ search_results[r].score >= last_call.threshold
             /\ \A r \in 1..(Len(search_results) - 1) :
                  /\ search_results[r].score >= search_results[r + 1].score
                  /\ search_results[r].index # search_results[r + 1].index
             /\ \A d \in 1..Len(documents) :
                  (/\ ScoreOf(d) >= last_call.threshold
                   /\ \A r \in 1..Len(search_results) : search_results[r].index + 1 # d)
                    => \A r \in 1..Len(search_results) : search_results[r].score >= ScoreOf(d)

\* A search over more documents than top_k that returns top_k results of
\* different scores and leaves out a document below the threshold.
C10_Witness ==
    /\ last_call.called /\ ~search_raised
    /\ last_call.top_k = 2
    /\ Len(documents) = 3
    /\ Len(search_results) = 2
    /\ search_results[1].score > search_results[2].score
    /\ \E d \in 1..Len(documents) : ScoreOf(d) < last_call.threshold

\* The last n elements of a sequence (all of it when it is shorter).
LastN(s, n) == SubSeq(s, Max(1, Len(s) - n + 1), Len(s))

\* The tokens two windows have in common.
SharedTokens(a, b) == {a[i] : i \in 1..Len(a)} \cap {b[i] : i \in 1..Len(b)}

\* C17: for C > O >= 0, every window of chunk_by_tokens holds at most C tokens,
\* only the final window is shorter, and each window after the first shares
\* exactly O tokens with the window before it, the trailing O tokens of that window.
C17_WindowSizeAndOverlap ==
    (cpc = "done_tokens" /\ chunk_size > overlap) =>
        /\ \A k \in 1..Len(chunks) : Len(chunks[k].text) <= chunk_size
        /\ \A k \in 1..(Len(chunks) - 1) : Len(chunks[k].text) = chunk_size
        /\ \A k \in 2..Len(chunks) :
             /\ Cardinality(SharedTokens(chunks[k - 1].text, chunks[k].text)) = overlap
             /\ Take(chunks[k].text, overlap) = LastN(chunks[k - 1].text, overlap)

\* C18: on every iteration of the loop of chunk_by_tokens the start index
\* strictly increases, for every chunk_size >= 1 and overlap >= 0, so that the
\* loop ends.
C18_StartStrictlyIncreases ==
    [][(cpc = "tokens" /\ chunks' # chunks) => start' > start]_vars

\* The sentences of chunk k, as its range says.
ChunkSentences(k) ==
    SubSeq(sentences, chunks[k].start_sentence + 1, chunks[k].end_sentence + 1)

\* The suffixes of a sentence list whose token total is at most budget.
FittingSuffixes(ss, budget) ==
    {n \in 0..Len(ss) : TokenCount(LastN(ss, n)) <= budget}

\* C19: for chunk_size > overlap >= 0, every chunk of chunk_by_sentences with two
\* or more sentences has at most chunk_size tokens, and the sentences a chunk
\* shares with the chunk closed before it are the longest suffix of that chunk
\* whose token total is at most overlap.
C19_BudgetAndOverlapSuffix ==
    (cpc = "done_sentences" /\ chunk_size > overlap) =>
        /\ \A k \in 1..Len(chunks) :
             Len(ChunkSentences(k)) >= 2 => TokenCount(ChunkSentences(k)) <= chunk_size
        /\ \A k \in 2..Len(chunks) :
             LET carried == chunks[k - 1].end_sentence - chunks[k].start_sentence + 1 IN
             /\ carried \in FittingSuffixes(ChunkSentences(k - 1), overlap)
             /\ \A n \in FittingSuffixes(ChunkSentences(k - 1), overlap) : n <= carried

\* The indices of a result list, in rank order.
ResultIndices(res) == [r \in 1..Len(res) |-> res[r].index]

\* C11: hybrid_search with alpha = 1 over the indexed documents returns the
\* same documents in the same rank order as search with the same query and
\* top_k (whatever order argsort gives equal scores), ties included.
C11_SemanticOnlyRanksAsSearch ==
    (/\ hybrid_call.called /\ ~hybrid_raised
     /\ hybrid_call.alpha = AlphaDen
     /\ hybrid_call.documents = documents) =>
        LET sims == Similarities(embeddings.vecs, Encode(hybrid_call.query)) IN
        \A order \in ArgSorts(sims) :
            ResultIndices(hybrid_results) =
                ResultIndices(SearchResults(TopIndices(order, hybrid_call.top_k), sims,
                                            documents, DefaultThreshold))

\* The number of query terms a document of the last hybrid_search call shares.
SharedTerms(d) ==
    Cardinality({t \in Terms(hybrid_call.query) :
                    \E i \in 1..Len(hybrid_call.documents[d]) :
                        Lower(hybrid_call.documents[d][i]) = t})

\* C12: hybrid_search with alpha = 0 returns the top_k documents by the
\* share of query terms they contain, in descending order of it (equal shares
\* in list order), without the documents of zero overlap; nothing in the
\* ranking refers to a similarity score.
C12_LexicalOnlyRanking ==
    (/\ hybrid_call.called /\ ~hybrid_raised
     /\ hybrid_call.alpha = 0 /\ hybrid_call.top_k >= 0) =>
        LET n == Len(hybrid_call.documents)
            idx == ResultIndices(hybrid_results)
            Before(d, e) == SharedTerms(d) > SharedTerms(e)
                            \/ (SharedTerms(d) = SharedTerms(e) /\ d < e)
        IN  /\ Len(idx) <= hybrid_call.top_k
            /\ \A r \in 1..Len(idx) :
                 /\ idx[r] + 1 \in 1..n
                 /\ hybrid_results[r].text = hybrid_call.documents[idx[r] + 1]
                 /\ SharedTerms(idx[r] + 1) > 0
            /\ \A r \in 1..(Len(idx) - 1) : Before(idx[r] + 1, idx[r + 1] + 1)
            /\ \A d \in 1..n :
                 (SharedTerms(d) > 0 /\ \A r \in 1..Len(idx) : idx[r] + 1 # d)
                    => /\ Len(idx) = hybrid_call.top_k
                       /\ \A r \in 1..Len(idx) : Before(idx[r] + 1, d)

\* A lexical-only call over a list that is not the indexed one returns two
\* documents of different overlap and leaves one out.
C12_Witness ==
    /\ hybrid_call.called /\ ~hybrid_raised /\ hybrid_call.alpha = 0
    /\ hybrid_call.documents # documents
    /\ Len(hybrid_call.documents) = 3
    /\ Len(hybrid_results) = 2
    /\ SharedTerms(hybrid_results[1].index + 1) > SharedTerms(hybrid_results[2].index + 1)
    /\ \E d \in 1..3 : SharedTerms(d) = 0

\* C13: get_skill_instructions returns, for a registered name, the skill's
\* instruction body (the text after the header block, which activate_skill
\* embeds in its prompt), and None for a name that is not registered.
C13_LookupReturnsBody ==
    lookup.called =>
        lookup.ret = IF lookup.name \in DOMAIN skills
                       THEN <<skills[lookup.name].body>>
                       ELSE <<>>

\* C14: every step of a workflow run (an iteration of the skill loop of
\* _execute_skill_chain or of execute_workflow) adds a key that the working
\* context did not hold and leaves the value of every key it held unchanged,
\* also when the plan names a skill twice; the caller's context is never
\* modified.
C14_StepsOnlyAddKeys ==
    [][/\ context' = context
       /\ (Len(results') > Len(results) \/ step' > step) =>
            /\ DOMAIN workflow_context' \ DOMAIN workflow_context # {}
            /\ \A k \in DOMAIN workflow_context :
                 workflow_context'[k] = workflow_context[k]]_vars

\* C16: in a call process_with_skills(user_input, context) that runs a plan,
\* the user query of every per-step skill context and the original request of
\* the synthesis prompt equal user_input, whatever the context argument.
C16_QueryIsUserInput ==
    pc \in {"chain", "done"} =>
        \A k \in 1..Len(log) :
            /\ log[k].op = "activate" => log[k].context.user_query = user_input
            /\ log[k].op = "synthesis" => log[k].request = user_input

\* What the k-th input of the session was: a quit command, a path that was
\* loaded, a path that could not be read, the command new, an empty question,
\* a question to forward.
QuitAt(k) == LowerText(Strip(inputs[k].text)) \in {<<"quit">>, <<"exit">>}

LoadedAt(k) ==
    inputs[k].prompt = "doc" /\ ~QuitAt(k) /\ ReadFile(Strip(inputs[k].text)) # <<>>

FailedAt(k) ==
    inputs[k].prompt = "doc" /\ ~QuitAt(k) /\ ReadFile(Strip(inputs[k].text)) = <<>>

NewAt(k) == inputs[k].prompt = "question" /\ LowerText(Strip(inputs[k].text)) = <<"new">>

AskedAt(k) ==
    /\ inputs[k].prompt = "question"
    /\ ~QuitAt(k) /\ ~NewAt(k)
    /\ Strip(inputs[k].text) # <<>>

\* The last successful load before the k-th input, 0 when there is none.
LastLoad(k) ==
    IF \E j \in 1..(k - 1) : LoadedAt(j)
      THEN CHOOSE j \in 1..(k - 1) : LoadedAt(j) /\ \A m \in (j + 1)..(k - 1) : ~LoadedAt(m)
      ELSE 0

\* An active document exists when the k-th input is read: a load succeeded
\* and no new command came after it.
ActiveAt(k) == LastLoad(k) > 0 /\ \A m \in LastLoad(k)..(k - 1) : ~NewAt(m)

\* C15: in interactive_session an input is read as a question exactly while
\* an active document exists (so after a failed load and after new the next
\* input is read as a path); the agent is called exactly for the questions
\* that are neither empty nor a command, in order, with the content of the
\* most recently loaded document as document text; after quit at either
\* prompt the session has ended: nothing more is read and no call is made.
C15_SessionProtocol ==
    /\ \A k \in 1..Len(inputs) :
         /\ inputs[k].prompt = "question" <=> ActiveAt(k)
         /\ QuitAt(k) => k = Len(inputs)
    /\ current_doc # <<>> <=> ActiveAt(Len(inputs) + 1)
    /\ spc = "ended" <=> (inputs # <<>> /\ QuitAt(Len(inputs)))
    /\ spc = "ended" => ~ENABLED NextSession
    /\ Len(session_calls) = Cardinality({k \in 1..Len(inputs) : AskedAt(k)})
    /\ \A c \in 1..Len(session_calls) :
         LET call == session_calls[c] IN
         /\ call.at \in 1..Len(inputs) /\ AskedAt(call.at)
         /\ c > 1 => session_calls[c - 1].at < call.at
         /\ call.user_input = Strip(inputs[call.at].text)
         /\ call.context.user_query = call.user_input
         /\ call.context.document_text =
                ReadFile(Strip(inputs[LastLoad(call.at)].text))[1]

\* A session loaded a document, took new, loaded another document of the same
\* stem, forwarded a question about it and ended on quit.
C15_Witness ==
    /\ spc = "ended"
    /\ Len(inputs) = 5
    /\ LoadedAt(1) /\ NewAt(2) /\ LoadedAt(3) /\ AskedAt(4)
    /\ Strip(inputs[1].text) = PathA /\ Strip(inputs[3].text) = PathB
    /\ Len(session_calls) = 1
    /\ session_calls[1].context.document_text = <<"beta">>

====
